---- MODULE Spec2Model ----
(***************************************************************************)
(* Model of app.py: the fee roster (students_sample.csv), the settings     *)
(* document (config.json), the receipt renderers and the three receipt     *)
(* export handlers of the Streamlit script.                                *)
(*                                                                         *)
(* Text is a sequence of one-character strings, so that formatting,        *)
(* parsing and str.replace are computed character by character.  Texts     *)
(* the program never takes apart (labels, branding, footer) are one-atom   *)
(* sequences.                                                              *)
(***************************************************************************)
EXTENDS Integers, Sequences, FiniteSets, TLC

(* ---------------------------- bounds ----------------------------------- *)
\* most records a roster holds
MaxRows == 2
\* seconds the wall clock may advance during a run
MaxClock == 2

(* ---------------------------- values ----------------------------------- *)
\* TLC keeps [x \in S |-> e] as a closure and evaluates e again at every
\* application.  Tuple(s) and Table(f) are s and f with every value computed
\* once.
Tuple(s) == s \o <<>>
Table(f) == f @@ <<>>

(* ---------------------------- text ------------------------------------- *)
DigitChars == <<"0", "1", "2", "3", "4", "5", "6", "7", "8", "9">>

Digit(n) == DigitChars[n + 1]

IsDigit(ch) == \E d \in 1..10 : DigitChars[d] = ch

DigitVal(ch) == (CHOOSE d \in 1..10 : DigitChars[d] = ch) - 1

RECURSIVE NatStr(_)
\* str(n) for a natural number n
NatStr(n) == IF n < 10 THEN <<Digit(n)>> ELSE NatStr(n \div 10) \o <<Digit(n % 10)>>

RECURSIVE Pad(_, _)
\* n written with at least w digits, zero padded (%02d, %04d)
Pad(n, w) == IF w <= 1 THEN NatStr(n) ELSE
               IF Len(NatStr(n)) >= w THEN NatStr(n) ELSE <<"0">> \o Pad(n, w - 1)

RECURSIVE DigitsVal(_)
\* the number a sequence of digits denotes
DigitsVal(s) == IF s = <<>> THEN 0
                ELSE 10 * DigitsVal(SubSeq(s, 1, Len(s) - 1)) + DigitVal(s[Len(s)])

\* str.lower() on the letters the model uses
Lower(ch) == CASE ch = "A" -> "a" [] ch = "B" -> "b" [] ch = "C" -> "c" [] OTHER -> ch

LowerStr(s) == Tuple([i \in 1..Len(s) |-> Lower(s[i])])

\* pat occurs in s (str.contains for a pattern without regex operators)
Contains(s, pat) ==
  \E i \in 1..(Len(s) - Len(pat) + 1) : SubSeq(s, i, i + Len(pat) - 1) = pat

\* str.replace(' ', '_')
ReplaceSpaces(s) == Tuple([i \in 1..Len(s) |-> IF s[i] = " " THEN "_" ELSE s[i]])

(* ---------------------------- numbers ---------------------------------- *)
\* An amount cell: a CSV string (dtype=str), an int64, a float64 (in cents)
\* or NaN.
StrCell(s) == [t |-> "str", s |-> s, c |-> 0]
IntCell(n) == [t |-> "int", s |-> <<>>, c |-> 100 * n]
FloatCell(c) == [t |-> "float", s |-> <<>>, c |-> c]
NaN == [t |-> "nan", s |-> <<>>, c |-> 0]

\* pd.to_numeric(..., errors="coerce") on one string: [-]digits is an
\* integer, [-]digits.digits a float, anything else NaN.  Defined for
\* strings over digits, "-", "." and letters, with at most two decimals.
ParseNum(s) ==
  LET neg == s # <<>> /\ s[1] = "-"
      body == IF neg THEN Tail(s) ELSE s
      dots == {i \in 1..Len(body) : body[i] = "."}
      sign == IF neg THEN -1 ELSE 1
  IN IF body = <<>> \/ \E i \in 1..Len(body) : ~IsDigit(body[i]) /\ body[i] # "."
       THEN NaN
     ELSE IF dots = {} THEN IntCell(sign * DigitsVal(body))
     ELSE IF Cardinality(dots) > 1 \/ Len(body) = 1 THEN NaN
     ELSE LET d == CHOOSE i \in dots : TRUE
              ip == SubSeq(body, 1, d - 1)
              fp == SubSeq(body, d + 1, Len(body))
              frac == IF Len(fp) = 0 THEN 0
                      ELSE IF Len(fp) = 1 THEN 10 * DigitsVal(fp)
                      ELSE DigitsVal(SubSeq(fp, 1, 2))
          IN FloatCell(sign * (100 * DigitsVal(ip) + frac))

Abs(n) == IF n < 0 THEN -n ELSE n

SignStr(n) == IF n < 0 THEN <<"-">> ELSE <<>>

\* repr of a float, as to_csv writes a float64 cell: 50.0, 1234.5, 12.34
FloatRepr(c) ==
  LET a == Abs(c)
      f == a % 100
  IN SignStr(c) \o NatStr(a \div 100) \o <<".">> \o
     (IF f % 10 = 0 THEN <<Digit(f \div 10)>> ELSE Pad(f, 2))

\* str of an int, as to_csv writes an int64 cell
IntRepr(c) == SignStr(c) \o NatStr(Abs(c) \div 100)

RECURSIVE Grouped(_)
\* a natural number with "," between groups of three digits
Grouped(n) == IF n < 1000 THEN NatStr(n)
              ELSE Grouped(n \div 1000) \o <<",">> \o Pad(n % 1000, 3)

\* f"{amount:,.2f}"
FormatAmount(c) ==
  SignStr(c) \o Grouped(Abs(c) \div 100) \o <<".">> \o Pad(Abs(c) % 100, 2)

(* ---------------------------- files & defaults ------------------------- *)
DEFAULT_CONFIG ==
  [app_title |-> <<"Sistem Yuran Asrama (Mengaji & Silat)">>,
   branding_text |-> <<"SMK PONDOK UPEH">>,
   currency |-> <<"R", "M">>,
   receipt_footer |->
     <<"Resit ini dijana secara digital dan tidak memerlukan tandatangan.">>,
   ui_labels |-> [mengaji |-> <<"Yuran Mengaji">>, silat |-> <<"Yuran Silat">>]]

REQUIRED_COLS ==
  <<"NAMA", "NO_KP", "TINGKATAN", "KELAS",
    "MENGAJI_STATUS", "MENGAJI_AMOUNT", "MENGAJI_DATE",
    "SILAT_STATUS", "SILAT_AMOUNT", "SILAT_DATE">>

\* the columns ensure_columns and load_students pass to pd.to_numeric
AmountCols == {"MENGAJI_AMOUNT", "SILAT_AMOUNT"}

Range(f) == {f[i] : i \in DOMAIN f}

(* ---------------------------- config store ----------------------------- *)
\* config.json: exists says whether the file is there, doc is its JSON
\* object (a function from the keys present to their values).
NoConfigFile == [exists |-> FALSE, doc |-> DEFAULT_CONFIG]

\* dict.get(key, default)
Get(d, key, default) == IF key \in DOMAIN d THEN d[key] ELSE default

load_config(file) == IF file.exists THEN file.doc ELSE DEFAULT_CONFIG

save_config(cfg) == [exists |-> TRUE, doc |-> cfg]

(* ---------------------------- record store ----------------------------- *)
\* students_sample.csv: a header (cols) and rows of text cells.
\* A DataFrame: cols and rows, each row a function from the columns to
\* cells; the cells of the amount columns are amount cells, the others text.
NoDataFile == [exists |-> FALSE, cols |-> <<>>, rows |-> <<>>]

Column(df, c) == Tuple([i \in 1..Len(df.rows) |-> df.rows[i][c]])

\* df[c] = vals
SetColumn(df, c, vals) ==
  [cols |-> IF c \in Range(df.cols) THEN df.cols ELSE Append(df.cols, c),
   rows |-> Tuple([i \in 1..Len(df.rows) |->
                     Table([k \in DOMAIN df.rows[i] \cup {c} |->
                              IF k = c THEN vals[i] ELSE df.rows[i][k]])])]

\* pd.read_csv(path, dtype=str, keep_default_na=False): every cell a string
read_csv(file) ==
  [cols |-> file.cols,
   rows |-> Tuple([i \in 1..Len(file.rows) |->
                     Table([k \in Range(file.cols) |->
                              IF k \in AmountCols THEN StrCell(file.rows[i][k])
                              ELSE file.rows[i][k]])])]

\* pd.to_numeric(column, errors="coerce"): strings are parsed; the column is
\* int64 when every value is an integer, float64 (NaN allowed) otherwise
to_numeric(vals) ==
  LET conv == Tuple([i \in 1..Len(vals) |->
                       IF vals[i].t = "str" THEN ParseNum(vals[i].s) ELSE vals[i]])
      allInt == \A i \in 1..Len(vals) : conv[i].t = "int"
  IN Tuple([i \in 1..Len(vals) |->
              IF allInt \/ conv[i].t = "nan" THEN conv[i] ELSE FloatCell(conv[i].c)])

\* Series.fillna(0.0)
fillna(vals) ==
  Tuple([i \in 1..Len(vals) |-> IF vals[i].t = "nan" THEN FloatCell(0) ELSE vals[i]])

\* the "" a missing column is filled with
EmptyCell(c) == IF c \in AmountCols THEN StrCell(<<>>) ELSE <<>>

\* for c in REQUIRED_COLS: if c not in df.columns: df[c] = ""
\* (the missing columns are appended in the order of REQUIRED_COLS)
AddMissing(df) ==
  LET have == Range(df.cols)
      missing == SelectSeq(REQUIRED_COLS, LAMBDA c : c \notin have)
  IN [cols |-> df.cols \o missing,
      rows |-> Tuple([i \in 1..Len(df.rows) |->
                        Table([k \in have \cup Range(missing) |->
                                 IF k \in have THEN df.rows[i][k] ELSE EmptyCell(k)])])]

\* df[REQUIRED_COLS]
SelectRequired(df) ==
  [cols |-> REQUIRED_COLS,
   rows |-> Tuple([i \in 1..Len(df.rows) |->
                     Table([k \in Range(REQUIRED_COLS) |-> df.rows[i][k]])])]

CoerceAmount(df, c) == SetColumn(df, c, fillna(to_numeric(Column(df, c))))

ensure_columns(df) ==
  SelectRequired(
    CoerceAmount(CoerceAmount(AddMissing(df), "MENGAJI_AMOUNT"), "SILAT_AMOUNT"))

\* The outcome of a call that may raise: ok, or the exception in err.
Ok(v) == [ok |-> TRUE, err |-> "", val |-> v]
Raise(e) == [ok |-> FALSE, err |-> e, val |-> <<>>]

EmptyFrame == [cols |-> REQUIRED_COLS, rows |-> <<>>]

\* load_students: df[col] on a column the file lacks raises KeyError, before
\* ensure_columns is reached
load_students(file) ==
  IF file.exists
    THEN IF AmountCols \subseteq Range(file.cols)
           THEN Ok(ensure_columns(
                     CoerceAmount(CoerceAmount(read_csv(file), "MENGAJI_AMOUNT"),
                                  "SILAT_AMOUNT")))
           ELSE Raise("KeyError")
    ELSE Ok(ensure_columns(EmptyFrame))

\* one cell as DataFrame.to_csv writes it
CsvCell(v, c) ==
  IF c \in AmountCols
    THEN CASE v.t = "int" -> IntRepr(v.c)
           [] v.t = "float" -> FloatRepr(v.c)
           [] v.t = "str" -> v.s
           [] OTHER -> <<>>
    ELSE v

\* save_students: df.to_csv(DATA_PATH, index=False)
save_students(df) ==
  [exists |-> TRUE, cols |-> df.cols,
   rows |-> Tuple([i \in 1..Len(df.rows) |->
                     Table([k \in Range(df.cols) |-> CsvCell(df.rows[i][k], k)])])]

(* ---------------------------- clock ------------------------------------ *)
\* The wall clock datetime.now() reads.  A reading is the number of seconds
\* elapsed since BaseTime; the run starts two seconds before a new year, so
\* that readings differ in the second only, or in the date as well.
BaseTime == [Y |-> 2024, M |-> 12, D |-> 31, h |-> 23, m |-> 59, s |-> 58]

IsLeap(y) == (y % 4 = 0 /\ y % 100 # 0) \/ y % 400 = 0

DaysIn(y, mo) == IF mo = 2 THEN (IF IsLeap(y) THEN 29 ELSE 28)
                 ELSE IF mo \in {4, 6, 9, 11} THEN 30 ELSE 31

\* the civil time one second after t
NextSecond(t) ==
  IF t.s < 59 THEN [t EXCEPT !.s = t.s + 1]
  ELSE IF t.m < 59 THEN [t EXCEPT !.s = 0, !.m = t.m + 1]
  ELSE IF t.h < 23 THEN [t EXCEPT !.s = 0, !.m = 0, !.h = t.h + 1]
  ELSE IF t.D < DaysIn(t.Y, t.M)
         THEN [t EXCEPT !.s = 0, !.m = 0, !.h = 0, !.D = t.D + 1]
  ELSE IF t.M < 12
         THEN [t EXCEPT !.s = 0, !.m = 0, !.h = 0, !.D = 1, !.M = t.M + 1]
  ELSE [t EXCEPT !.s = 0, !.m = 0, !.h = 0, !.D = 1, !.M = 1, !.Y = t.Y + 1]

RECURSIVE Now(_)
\* datetime.now() at reading k
Now(k) == IF k = 0 THEN BaseTime ELSE NextSecond(Now(k - 1))

\* strftime('%Y%m%d-%H%M%S')
StampSecond(t) ==
  Pad(t.Y, 4) \o Pad(t.M, 2) \o Pad(t.D, 2) \o <<"-">> \o
  Pad(t.h, 2) \o Pad(t.m, 2) \o Pad(t.s, 2)

\* strftime('%Y-%m-%d')
StampDate(t) == Pad(t.Y, 4) \o <<"-">> \o Pad(t.M, 2) \o <<"-">> \o Pad(t.D, 2)

\* strftime('%Y%m%d_%H%M')
StampMinute(t) ==
  Pad(t.Y, 4) \o Pad(t.M, 2) \o Pad(t.D, 2) \o <<"_">> \o Pad(t.h, 2) \o Pad(t.m, 2)

\* mutant: the receipt number stamped to the minute
next_receipt_no_minute(prefix, k) == prefix \o <<"-">> \o StampMinute(Now(k))

next_receipt_no(prefix, k) == prefix \o <<"-">> \o StampSecond(Now(k))

(* ---------------------------- PDF generation --------------------------- *)
\* An FPDF document is its auto-page-break margin and its pages; a page is
\* the sequence of drawing calls made on it.
SetFont(style, size) ==
  [op |-> "set_font", style |-> style, w |-> 0, h |-> size, txt |-> <<>>, ln |-> FALSE]
Cell(w, h, txt, ln) ==
  [op |-> "cell", style |-> "", w |-> w, h |-> h, txt |-> txt, ln |-> ln]
Ln(h) == [op |-> "ln", style |-> "", w |-> 0, h |-> h, txt |-> <<>>, ln |-> TRUE]
MultiCell(w, h, txt) ==
  [op |-> "multi_cell", style |-> "", w |-> w, h |-> h, txt |-> txt, ln |-> TRUE]

\* FPDF.output(dest="S"): closing a document that has no page adds a blank page
Output(margin, pages) ==
  [margin |-> margin, pages |-> IF pages = <<>> THEN << <<>> >> ELSE pages]

build_receipt_pdf_bytes(cfg, student, fee_type_label, amount, date_str, receipt_no) ==
  Output(15,
    << << SetFont("B", 14),
          Cell(0, 8, Get(cfg, "branding_text", DEFAULT_CONFIG.branding_text), TRUE),
          SetFont("", 12),
          Cell(0, 6, <<"RESIT PEMBAYARAN YURAN">>, TRUE),
          Ln(4),
          SetFont("", 11),
          Cell(40, 6, <<"Nama:">>, FALSE),
          Cell(0, 6, student["NAMA"], TRUE),
          Cell(40, 6, <<"No. KP:">>, FALSE),
          Cell(0, 6, student["NO_KP"], TRUE),
          Cell(40, 6, <<"Tingkatan / Kelas:">>, FALSE),
          Cell(0, 6, student["TINGKATAN"] \o <<" / ">> \o student["KELAS"], TRUE),
          Ln(4),
          SetFont("B", 12),
          Cell(0, 7, <<"Yuran Dibayar:">>, TRUE),
          SetFont("", 11),
          Cell(70, 6, <<"- ">> \o fee_type_label, FALSE),
          Cell(0, 6, Get(cfg, "currency", <<"R", "M">>) \o FormatAmount(amount), TRUE),
          Ln(6),
          Cell(40, 6, <<"Tarikh:">>, FALSE),
          Cell(0, 6, date_str, TRUE),
          Cell(40, 6, <<"No. Resit:">>, FALSE),
          Cell(0, 6, receipt_no, TRUE),
          Ln(8),
          SetFont("I", 9),
          MultiCell(0, 5, Get(cfg, "receipt_footer", DEFAULT_CONFIG.receipt_footer)) >> >>)

\* cfg["ui_labels"]["mengaji"] if fee_key=="MENGAJI" else cfg["ui_labels"]["silat"]
FeeLabel(cfg, fee_key) ==
  LET k == IF fee_key = "MENGAJI" THEN "mengaji" ELSE "silat"
  IN IF "ui_labels" \in DOMAIN cfg /\ k \in DOMAIN cfg["ui_labels"]
       THEN Ok(cfg["ui_labels"][k])
       ELSE Raise("KeyError")

fee_map(fee_key) ==
  IF fee_key = "MENGAJI" THEN <<"MENGAJI_AMOUNT", "MENGAJI_DATE">>
  ELSE <<"SILAT_AMOUNT", "SILAT_DATE">>

\* mutant: the date line always shows the current date
generate_single_pdf_today(cfg, student_row, fee_key, at) ==
  LET label == FeeLabel(cfg, fee_key)
      amount == student_row[fee_map(fee_key)[1]].c
      rno == next_receipt_no(Get(cfg, "receipt_prefix", <<"D", "N">>), at.r)
  IN IF ~label.ok THEN label
     ELSE Ok(build_receipt_pdf_bytes(cfg, student_row, label.val, amount,
                                     StampDate(Now(at.d)), rno))

\* generate_single_pdf; at.d and at.r are the clock readings of its two
\* datetime.now() calls (the first is made only for a blank date)
generate_single_pdf(cfg, student_row, fee_key, at) ==
  LET label == FeeLabel(cfg, fee_key)
      amt_col == fee_map(fee_key)[1]
      date_col == fee_map(fee_key)[2]
      amount == student_row[amt_col].c
      date_str == IF student_row[date_col] # <<>> THEN student_row[date_col]
                  ELSE StampDate(Now(at.d))
      rno == next_receipt_no(Get(cfg, "receipt_prefix", <<"D", "N">>), at.r)
  IN IF ~label.ok THEN label
     ELSE Ok(build_receipt_pdf_bytes(cfg, student_row, label.val, amount, date_str, rno))

\* mutant: every page shows the MENGAJI amount and date
BulkPageMengajiOnly(cfg, row, fee_key, label, at) ==
  build_receipt_pdf_bytes(cfg, row, label, row["MENGAJI_AMOUNT"].c,
    IF row["MENGAJI_DATE"] # <<>> THEN row["MENGAJI_DATE"] ELSE StampDate(Now(at.d)),
    next_receipt_no(Get(cfg, "receipt_prefix", <<"D", "N">>), at.r)).pages[1]

\* the body of the loop of generate_bulk_one_pdf: the page of one row
BulkPage(cfg, row, fee_key, label, at) ==
  LET amt == IF fee_key = "MENGAJI" THEN row["MENGAJI_AMOUNT"].c
             ELSE row["SILAT_AMOUNT"].c
      date0 == IF fee_key = "MENGAJI" THEN row["MENGAJI_DATE"] ELSE row["SILAT_DATE"]
      date_str == IF date0 # <<>> THEN date0 ELSE StampDate(Now(at.d))
      rno == next_receipt_no(Get(cfg, "receipt_prefix", <<"D", "N">>), at.r)
  IN << SetFont("B", 14),
        Cell(0, 8, Get(cfg, "branding_text", DEFAULT_CONFIG.branding_text), TRUE),
        SetFont("", 12),
        Cell(0, 6, <<"RESIT PEMBAYARAN YURAN">>, TRUE),
        Ln(4),
        SetFont("", 11),
        Cell(40, 6, <<"Nama:">>, FALSE), Cell(0, 6, row["NAMA"], TRUE),
        Cell(40, 6, <<"No. KP:">>, FALSE), Cell(0, 6, row["NO_KP"], TRUE),
        Cell(40, 6, <<"Tingkatan / Kelas:">>, FALSE),
        Cell(0, 6, row["TINGKATAN"] \o <<" / ">> \o row["KELAS"], TRUE),
        Ln(4),
        SetFont("B", 12),
        Cell(0, 7, <<"Yuran Dibayar:">>, TRUE),
        SetFont("", 11),
        Cell(70, 6, <<"- ">> \o label, FALSE),
        Cell(0, 6, Get(cfg, "currency", <<"R", "M">>) \o FormatAmount(amt), TRUE),
        Ln(6),
        Cell(40, 6, <<"Tarikh:">>, FALSE), Cell(0, 6, date_str, TRUE),
        Cell(40, 6, <<"No. Resit:">>, FALSE), Cell(0, 6, rno, TRUE),
        Ln(8),
        SetFont("I", 9),
        MultiCell(0, 5, Get(cfg, "receipt_footer", DEFAULT_CONFIG.receipt_footer)) >>

\* mutant: the pages in the reverse of the input order
BulkPagesReversed(cfg, rows, fee_key, label, ats) ==
  Tuple([i \in 1..Len(rows) |->
           BulkPage(cfg, rows[Len(rows) + 1 - i], fee_key, label, ats[Len(rows) + 1 - i])])

\* for _, row in df_subset.iterrows(): pdf.add_page(); ...
BulkPages(cfg, rows, fee_key, label, ats) ==
  Tuple([i \in 1..Len(rows) |-> BulkPage(cfg, rows[i], fee_key, label, ats[i])])

\* generate_bulk_one_pdf; ats[i] are the clock readings made for page i
generate_bulk_one_pdf(cfg, rows, fee_key, ats) ==
  LET label == FeeLabel(cfg, fee_key)
  IN IF ~label.ok THEN label
     ELSE Ok(Output(15, BulkPages(cfg, rows, fee_key, label.val, ats)))

(* ---------------------------- inputs ----------------------------------- *)
Belum == <<"Belum Bayar">>
Sudah == <<"Sudah Bayar">>
Bestari == <<"B", "e", "s", "t", "a", "r", "i">>
Dec1 == <<"2", "0", "2", "4", "-", "1", "2", "-", "0", "1">>

\* one CSV row with the ten required columns
CsvRow(nama, kp, ms, ma, md, ss, sa, sd) ==
  [k \in Range(REQUIRED_COLS) |->
     CASE k = "NAMA" -> nama [] k = "NO_KP" -> kp
       [] k = "TINGKATAN" -> <<"4">> [] k = "KELAS" -> Bestari
       [] k = "MENGAJI_STATUS" -> ms [] k = "MENGAJI_AMOUNT" -> ma
       [] k = "MENGAJI_DATE" -> md [] k = "SILAT_STATUS" -> ss
       [] k = "SILAT_AMOUNT" -> sa [] OTHER -> sd]

\* the i-th record of the CSV files the runs start from
PoolRow(i) ==
  CASE i = 1 -> CsvRow(<<"A", " ", "B">>, <<"1">>, Sudah, <<"5", "0">>, Dec1,
                       Belum, <<"1", "2", "3", "4", ".", "5">>, <<>>)
    [] i = 2 -> CsvRow(<<"C">>, <<"2">>, Belum, <<"x">>, <<>>,
                       Sudah, <<"7">>, Dec1)
    [] OTHER -> CsvRow(<<"C", Digit(i % 10)>>, <<Digit(i % 10)>>,
                       Sudah, <<"5", "0", ".", "0">>, <<>>, Sudah, <<>>, <<>>)

\* a CSV whose two records have names that differ only in " " against "_"
TwinFile ==
  [exists |-> TRUE, cols |-> REQUIRED_COLS,
   rows |-> << PoolRow(1),
               CsvRow(<<"A", "_", "B">>, <<"8">>, Belum, <<"2", "0">>, <<>>,
                      Sudah, <<"7">>, Dec1) >>]

FullFile(n) ==
  [exists |-> TRUE, cols |-> REQUIRED_COLS, rows |-> [i \in 1..n |-> PoolRow(i)]]

\* a CSV with its columns in another order, one column the program does not
\* know, and without the columns in `missing`
PartialFile(n, missing) ==
  LET order == <<"EXTRA", "SILAT_DATE", "SILAT_AMOUNT", "SILAT_STATUS",
                 "MENGAJI_DATE", "MENGAJI_AMOUNT", "MENGAJI_STATUS",
                 "KELAS", "TINGKATAN", "NO_KP", "NAMA">>
      cols == SelectSeq(order, LAMBDA c : c \notin missing)
  IN [exists |-> TRUE, cols |-> cols,
      rows |-> [i \in 1..n |->
                  [k \in Range(cols) |->
                     IF k = "EXTRA" THEN <<"e">> ELSE PoolRow(i)[k]]]]

\* a CSV with a negative amount
NegativeFile ==
  [exists |-> TRUE, cols |-> REQUIRED_COLS,
   rows |-> << CsvRow(<<"C">>, <<"9">>, Sudah, <<"-", "5">>, <<>>,
                      Belum, <<"0">>, <<>>) >>]

\* the CSV files a run may find in DATA_PATH or be given in the uploader
CsvFiles ==
  {FullFile(n) : n \in 0..MaxRows} \cup
  {PartialFile(1, {}), PartialFile(1, {"KELAS", "MENGAJI_DATE"}),
   PartialFile(1, {"SILAT_AMOUNT"}), NegativeFile, TwinFile}

InitDataFiles == {NoDataFile} \cup CsvFiles

\* the documents a run may find in CONFIG_PATH
CustomConfig ==
  [app_title |-> <<"T">>, branding_text |-> <<"S">>, currency |-> <<"$">>,
   receipt_footer |-> <<"F">>, receipt_prefix |-> <<"Z">>,
   ui_labels |-> [mengaji |-> <<"M">>, silat |-> <<"L">>]]

InitConfigFiles ==
  {NoConfigFile,
   save_config(CustomConfig),
   save_config([ui_labels |-> [mengaji |-> <<"M">>, silat |-> <<"L">>]]),
   save_config([ui_labels |-> [mengaji |-> <<"M">>]]),
   save_config([branding_text |-> <<"S">>])}

\* no document
NoDoc == [margin |-> 0, pages |-> <<>>]

\* what RECEIPTS_DIR may hold before a run: nothing, or an older receipt
StaleDoc == Output(15, << << Cell(0, 6, <<"old">>, TRUE) >> >>)

InitReceipts ==
  {[n \in {} |-> NoDoc],
   [n \in {<<"resit_", "mengaji", "_", "A", "_", "B", ".pdf">>} |-> StaleDoc]}

(* ---------------------------- state ------------------------------------ *)
VARIABLES
  dataFile,    \* students_sample.csv
  configFile,  \* config.json
  receipts,    \* RECEIPTS_DIR: file name -> document
  clock,       \* the latest reading of the wall clock
  last         \* what the latest script run did

vars == <<dataFile, configFile, receipts, clock, last>>

\* op: the handler that ran; result: "ok", "warning" or the exception that
\* ended the run; fee_key, rows, ats, cfg: what the handler passed to the
\* renderer; doc: the document returned; zip: the archive's entries in the
\* order written; fname: the file written last; before: DATA_PATH and
\* RECEIPTS_DIR as the handler found them
NoRun ==
  [op |-> "none", result |-> "ok", fee_key |-> "", rows |-> <<>>, ats |-> <<>>,
   cfg |-> DEFAULT_CONFIG, doc |-> NoDoc, zip |-> <<>>, fname |-> <<>>,
   before |-> [dataFile |-> NoDataFile, receipts |-> [n \in {} |-> NoDoc]]]

Init ==
  /\ dataFile \in InitDataFiles
  /\ configFile \in InitConfigFiles
  /\ receipts = [n \in {} |-> NoDoc]
  /\ clock = 0
  /\ last = NoRun

(* ---------------------------- the script ------------------------------- *)
\* Every run executes the script top to bottom: the data tab loads the
\* roster (line 169), the receipt tab loads it again (217) and, when it is
\* not empty, reads both labels (232); the settings tab reads
\* cfg["ui_labels"] (295).  An exception ends the run where it is raised.
BothLabels(cfg) ==
  "ui_labels" \in DOMAIN cfg /\ {"mengaji", "silat"} \subseteq DOMAIN cfg["ui_labels"]

\* the run reaches the widgets of the data tab
DataTabReached == load_students(dataFile).ok

\* the run reaches the buttons of the receipt tab
ReceiptTabReached ==
  /\ load_students(dataFile).ok
  /\ load_students(dataFile).val.rows # <<>>
  /\ BothLabels(load_config(configFile))

\* how a run ends that leaves the data tab with `file` in DATA_PATH
ScriptTail(file) ==
  LET cfg == load_config(configFile)
      r == load_students(file)
  IN IF ~r.ok THEN "KeyError"
     ELSE IF r.val.rows # <<>> /\ ~BothLabels(cfg) THEN "KeyError"
     ELSE IF "ui_labels" \notin DOMAIN cfg THEN "KeyError"
     ELSE "ok"

\* the run reaches the widgets of the settings tab
SettingsTabReached == DataTabReached /\ ScriptTail(dataFile) = "ok"

Ran(op, result) == [NoRun EXCEPT !.op = op, !.result = result]

(* ---------------------------- data tab --------------------------------- *)
\* the dict built from the form "add_student"
NewStudent(name, ic, ting, kelas, mengaji_amt, silat_amt) ==
  [k \in Range(REQUIRED_COLS) |->
     CASE k = "NAMA" -> name [] k = "NO_KP" -> ic
       [] k = "TINGKATAN" -> ting [] k = "KELAS" -> kelas
       [] k = "MENGAJI_STATUS" -> Belum [] k = "MENGAJI_AMOUNT" -> FloatCell(mengaji_amt)
       [] k = "MENGAJI_DATE" -> <<>> [] k = "SILAT_STATUS" -> Belum
       [] k = "SILAT_AMOUNT" -> FloatCell(silat_amt) [] OTHER -> <<>>]

\* pd.concat([df, pd.DataFrame([new])], ignore_index=True)
Concat(df, new) == [df EXCEPT !.rows = Append(df.rows, new)]

\* "Tambah": number_input has min_value=0.0
AddStudent ==
  /\ DataTabReached
  /\ Len(load_students(dataFile).val.rows) < MaxRows
  /\ \E name \in {<<"A", "_", "B">>}, ic \in {<<"9">>}, ting \in {<<"4">>},
        mengaji_amt \in {0, 5000}, silat_amt \in {0} :
       LET df == Concat(load_students(dataFile).val,
                        NewStudent(name, ic, ting, Bestari, mengaji_amt, silat_amt))
       IN /\ dataFile' = save_students(ensure_columns(df))
          /\ last' = Ran("add", ScriptTail(dataFile'))
  /\ UNCHANGED <<configFile, receipts, clock>>

SetCell(df, i, c, v) == [df EXCEPT !.rows[i][c] = v]

\* the row st.data_editor appends: every cell None (to_csv writes None as an
\* empty field; a None amount is NaN)
BlankRow == [k \in Range(REQUIRED_COLS) |-> IF k \in AmountCols THEN NaN ELSE <<>>]

\* what st.data_editor(df, num_rows="dynamic") may return: df, or df with
\* an amount typed in or a row appended
EditedFrames(df) ==
  {df}
  \cup {SetCell(df, i, "MENGAJI_AMOUNT", FloatCell(-500)) : i \in 1..Len(df.rows)}
  \cup (IF Len(df.rows) < MaxRows THEN {Concat(df, BlankRow)} ELSE {})

\* "Simpan Perubahan"
SaveEdited ==
  /\ DataTabReached
  /\ \E edited \in EditedFrames(load_students(dataFile).val) :
       /\ dataFile' = save_students(ensure_columns(edited))
       /\ last' = Ran("save", ScriptTail(dataFile'))
  /\ UNCHANGED <<configFile, receipts, clock>>

\* edited.drop(index=to_delete).reset_index(drop=True)
Drop(df, to_delete) ==
  LET keep == SelectSeq([i \in 1..Len(df.rows) |-> i], LAMBDA i : i \notin to_delete)
  IN [df EXCEPT !.rows = Tuple([j \in 1..Len(keep) |-> df.rows[keep[j]]])]

\* "Padam Dipilih"
DeleteSelected ==
  /\ DataTabReached
  /\ \E edited \in EditedFrames(load_students(dataFile).val) :
       \E to_delete \in SUBSET (1..Len(edited.rows)) :
         IF to_delete # {}
           THEN /\ dataFile' = save_students(ensure_columns(Drop(edited, to_delete)))
                /\ last' = Ran("delete", ScriptTail(dataFile'))
           ELSE /\ dataFile' = dataFile
                /\ last' = Ran("nodelete",
                               IF ScriptTail(dataFile) = "ok" THEN "warning"
                               ELSE ScriptTail(dataFile))
  /\ UNCHANGED <<configFile, receipts, clock>>

(* ---------------------------- settings tab ----------------------------- *)
\* the settings as the form leaves them: every text_input starts from the
\* stored value or its default, and the user may retype it
SettingsForm(cfg, branding, mengaji) ==
  LET labels == [k \in DOMAIN cfg["ui_labels"] \cup {"mengaji", "silat"} |->
                   IF k = "mengaji" THEN mengaji
                   ELSE IF k = "silat" THEN Get(cfg["ui_labels"], "silat", <<"Yuran Silat">>)
                   ELSE cfg["ui_labels"][k]]
  IN [k \in DOMAIN cfg \cup {"app_title", "branding_text", "currency", "receipt_footer"} |->
        CASE k = "app_title" -> Get(cfg, "app_title", DEFAULT_CONFIG.app_title)
          [] k = "branding_text" -> branding
          [] k = "currency" -> Get(cfg, "currency", <<"R", "M">>)
          [] k = "receipt_footer" -> Get(cfg, "receipt_footer", DEFAULT_CONFIG.receipt_footer)
          [] k = "ui_labels" -> labels
          [] OTHER -> cfg[k]]

\* "Simpan Tetapan"
SaveSettings ==
  /\ SettingsTabReached
  /\ LET cfg == load_config(configFile)
     IN \E branding \in {Get(cfg, "branding_text", DEFAULT_CONFIG.branding_text), <<"N">>},
           mengaji \in {Get(cfg["ui_labels"], "mengaji", <<"Yuran Mengaji">>)} :
          configFile' = save_config(SettingsForm(cfg, branding, mengaji))
  /\ last' = Ran("settings", "ok")
  /\ UNCHANGED <<dataFile, receipts, clock>>

\* the file uploader holds a CSV: "Import CSV (gantikan)"
ImportCSV ==
  /\ SettingsTabReached
  /\ \E up \in CsvFiles :
       dataFile' = save_students(ensure_columns(read_csv(up)))
  /\ last' = Ran("import", "ok")
  /\ UNCHANGED <<configFile, receipts, clock>>

\* a run that an exception ends before any handler is reached
RunFails ==
  /\ ~DataTabReached \/ ScriptTail(dataFile) # "ok"
  /\ last' = Ran("run", "KeyError")
  /\ UNCHANGED <<dataFile, configFile, receipts, clock>>

Next ==
  \/ AddStudent
  \/ SaveEdited
  \/ DeleteSelected
  \/ ImportCSV
  \/ SaveSettings
  \/ RunFails

\* the data tab and the settings tab
Spec == Init /\ [][Next]_vars

(* ---------------------------- receipt tab ------------------------------ *)
\* the search box and the "Hanya yang Sudah Bayar" checkbox
Queries == {<<>>, <<"a", " ">>}

Matches(row, q) ==
  LET t == LowerStr(q)
  IN \/ Contains(LowerStr(row["NAMA"]), t)
     \/ Contains(LowerStr(row["NO_KP"]), t)
     \/ Contains(row["TINGKATAN"], t)
     \/ Contains(LowerStr(row["KELAS"]), t)

\* list_df: the rows offered in the multiselect
list_df(df, q, fee_key, only_paid) ==
  LET status_col == IF fee_key = "MENGAJI" THEN "MENGAJI_STATUS" ELSE "SILAT_STATUS"
      filtered == IF q # <<>> THEN SelectSeq(df.rows, LAMBDA r : Matches(r, q))
                  ELSE df.rows
  IN IF only_paid THEN SelectSeq(filtered, LAMBDA r : r[status_col] = Sudah)
     ELSE filtered

\* what st.multiselect may return over n options: distinct options, in the
\* order the user picked them
Selections(n) ==
  UNION {{sel \in [1..k -> 1..n] : \A i, j \in 1..k : i # j => sel[i] # sel[j]} :
           k \in 0..n}

\* list_df.loc[selected]
Loc(rows, selected) == Tuple([i \in 1..Len(selected) |-> rows[selected[i]]])

\* The clock readings a loop over `rows` may make: for each row the reading
\* d of the date default (made only when the stored date is blank) and the
\* reading r of next_receipt_no, in the order the code makes them.
Readings(rows, fee_key) ==
  LET T == clock..MaxClock
      blank(i) == rows[i][fee_map(fee_key)[2]] = <<>>
  IN {ats \in [1..Len(rows) -> [d : T, r : T]] :
        /\ \A i \in 1..Len(rows) :
             /\ ats[i].d <= ats[i].r
             /\ ~blank(i) => ats[i].d = ats[i].r
        /\ \A i \in 1..(Len(rows) - 1) : ats[i].r <= ats[i + 1].d}

FeeLower(fee_key) == IF fee_key = "MENGAJI" THEN <<"mengaji">> ELSE <<"silat">>

\* f"resit_{fee_key.lower()}_{row['NAMA'].replace(' ','_')}.pdf"
ReceiptName(fee_key, row) ==
  <<"resit_">> \o FeeLower(fee_key) \o <<"_">> \o ReplaceSpaces(row["NAMA"]) \o <<".pdf">>

\* f"bulk_{fee_key.lower()}_{datetime.now().strftime('%Y%m%d_%H%M')}.pdf"
BulkName(fee_key, k) ==
  <<"bulk_">> \o FeeLower(fee_key) \o <<"_">> \o StampMinute(Now(k)) \o <<".pdf">>

\* mutant: a file that exists is left as it is
WriteFileKeepFirst(dir, fname, data) ==
  [n \in DOMAIN dir \cup {fname} |-> IF n \in DOMAIN dir THEN dir[n] ELSE data]

\* with open(os.path.join(RECEIPTS_DIR, fname), "wb") as f: f.write(data)
WriteFile(dir, fname, data) ==
  [n \in DOMAIN dir \cup {fname} |-> IF n = fname THEN data ELSE dir[n]]

\* mutant: a member of the same name is replaced
writestrReplace(zf, fname, data) ==
  Append(SelectSeq(zf, LAMBDA e : e.name # fname), [name |-> fname, data |-> data])

\* ZipFile.writestr(fname, data): a member is appended to the archive, also
\* when the archive already has a member of that name
writestr(zf, fname, data) == Append(zf, [name |-> fname, data |-> data])

RECURSIVE ZipLoop(_, _, _, _, _, _)
\* for _, row in subset.iterrows(): ... for the first n rows; start is
\* the archive and the directory before the loop
ZipLoop(cfg, rows, fee_key, ats, n, start) ==
  IF n = 0 THEN start
  ELSE LET acc == ZipLoop(cfg, rows, fee_key, ats, n - 1, start)
           pdfb == generate_single_pdf(cfg, rows[n], fee_key, ats[n]).val
           fname == ReceiptName(fee_key, rows[n])
       IN [zf |-> writestr(acc.zf, fname, pdfb),
           dir |-> WriteFile(acc.dir, fname, pdfb)]

\* the widgets of the receipt tab: the fee chosen and the rows selected, in
\* the order selected
Selected ==
  LET df == load_students(dataFile).val
  IN UNION {{[fee_key |-> fee_key,
              subset |-> Loc(list_df(df, q, fee_key, only_paid), selected)] :
               selected \in Selections(Len(list_df(df, q, fee_key, only_paid)))} :
             q \in Queries, fee_key \in {"MENGAJI", "SILAT"}, only_paid \in BOOLEAN}

Warned(op) ==
  /\ last' = Ran(op, "warning")
  /\ UNCHANGED <<dataFile, configFile, receipts, clock>>

\* "Jana Individu"
JanaIndividu ==
  /\ last.op = "none"
  /\ ReceiptTabReached
  /\ LET cfg == load_config(configFile)
         Press(fee_key, subset) ==
           IF subset = <<>> THEN Warned("individu")
           ELSE \E ats \in Readings(<<subset[1]>>, fee_key) :
                  LET row == subset[1]
                      pdf_bytes == generate_single_pdf(cfg, row, fee_key, ats[1]).val
                      fname == ReceiptName(fee_key, row)
                  IN /\ receipts' = WriteFile(receipts, fname, pdf_bytes)
                     /\ clock' = ats[1].r
                     /\ last' = [op |-> "individu", result |-> "ok", fee_key |-> fee_key,
                                 rows |-> <<row>>, ats |-> ats, cfg |-> cfg,
                                 doc |-> pdf_bytes, zip |-> <<>>, fname |-> fname,
                                 before |-> [dataFile |-> dataFile, receipts |-> receipts]]
                     /\ UNCHANGED <<dataFile, configFile>>
     IN \E w \in Selected : Press(w.fee_key, w.subset)

\* "Jana Bulk (Satu Fail PDF)"
JanaBulkOne ==
  /\ last.op = "none"
  /\ ReceiptTabReached
  /\ LET cfg == load_config(configFile)
         Press(fee_key, subset) ==
           IF subset = <<>> THEN Warned("bulk")
           ELSE \E ats \in Readings(subset, fee_key) :
                \E fat \in ats[Len(subset)].r..MaxClock :
                  LET pdf_bytes == generate_bulk_one_pdf(cfg, subset, fee_key, ats).val
                      fname == BulkName(fee_key, fat)
                  IN /\ receipts' = WriteFile(receipts, fname, pdf_bytes)
                     /\ clock' = fat
                     /\ last' = [op |-> "bulk", result |-> "ok", fee_key |-> fee_key,
                                 rows |-> subset, ats |-> ats, cfg |-> cfg,
                                 doc |-> pdf_bytes, zip |-> <<>>, fname |-> fname,
                                 before |-> [dataFile |-> dataFile, receipts |-> receipts]]
                     /\ UNCHANGED <<dataFile, configFile>>
     IN \E w \in Selected : Press(w.fee_key, w.subset)

\* "Jana Bulk (Fail Terpisah -> ZIP)"
JanaZip ==
  /\ last.op = "none"
  /\ ReceiptTabReached
  /\ LET cfg == load_config(configFile)
         Press(fee_key, subset) ==
           IF subset = <<>> THEN Warned("zip")
           ELSE \E ats \in Readings(subset, fee_key) :
                  LET out == ZipLoop(cfg, subset, fee_key, ats, Len(subset),
                                     [zf |-> <<>>, dir |-> receipts])
                  IN /\ receipts' = out.dir
                     /\ clock' = ats[Len(subset)].r
                     /\ last' = [op |-> "zip", result |-> "ok", fee_key |-> fee_key,
                                 rows |-> subset, ats |-> ats, cfg |-> cfg,
                                 doc |-> NoDoc, zip |-> out.zf,
                                 fname |-> ReceiptName(fee_key, subset[Len(subset)]),
                                 before |-> [dataFile |-> dataFile, receipts |-> receipts]]
                     /\ UNCHANGED <<dataFile, configFile>>
     IN \E w \in Selected : Press(w.fee_key, w.subset)

\* a run of the script that raises before the receipt tab's buttons
ReceiptRunFails ==
  /\ last.op = "none"
  /\ RunFails

ReceiptInit ==
  /\ dataFile \in InitDataFiles
  /\ configFile \in InitConfigFiles
  /\ receipts \in InitReceipts
  /\ clock = 0
  /\ last = NoRun

ReceiptNext ==
  \/ JanaIndividu
  \/ JanaBulkOne
  \/ JanaZip
  \/ ReceiptRunFails

\* one run of the script with a button of the receipt tab pressed, from
\* every roster, config and receipts directory of the Init sets
ReceiptSpec == ReceiptInit /\ [][ReceiptNext]_vars

(* ---------------------------- the renderers called directly ------------ *)
\* generate_single_pdf(cfg, row, fee_key) on a row of the loaded roster
CallSingle ==
  /\ last.op = "none"
  /\ load_students(dataFile).ok
  /\ LET cfg == load_config(configFile)
         df == load_students(dataFile).val
     IN \E i \in 1..Len(df.rows), fee_key \in {"MENGAJI", "SILAT"} :
        \E ats \in Readings(<<df.rows[i]>>, fee_key) :
          LET r == generate_single_pdf(cfg, df.rows[i], fee_key, ats[1])
          IN /\ clock' = IF r.ok THEN ats[1].r ELSE clock
             /\ last' = [NoRun EXCEPT !.op = "generate_single_pdf",
                                      !.result = IF r.ok THEN "ok" ELSE r.err,
                                      !.fee_key = fee_key, !.rows = <<df.rows[i]>>,
                                      !.ats = ats, !.cfg = cfg,
                                      !.doc = IF r.ok THEN r.val ELSE NoDoc]
  /\ UNCHANGED <<dataFile, configFile, receipts>>

\* generate_bulk_one_pdf(cfg, df_subset, fee_key) on any rows of the loaded
\* roster, none included
CallBulk ==
  /\ last.op = "none"
  /\ load_students(dataFile).ok
  /\ LET cfg == load_config(configFile)
         df == load_students(dataFile).val
     IN \E selected \in Selections(Len(df.rows)), fee_key \in {"MENGAJI", "SILAT"} :
        \E ats \in Readings(Loc(df.rows, selected), fee_key) :
          LET rows == Loc(df.rows, selected)
              r == generate_bulk_one_pdf(cfg, rows, fee_key, ats)
          IN /\ clock' = IF r.ok /\ rows # <<>> THEN ats[Len(rows)].r ELSE clock
             /\ last' = [NoRun EXCEPT !.op = "generate_bulk_one_pdf",
                                      !.result = IF r.ok THEN "ok" ELSE r.err,
                                      !.fee_key = fee_key, !.rows = rows,
                                      !.ats = ats, !.cfg = cfg,
                                      !.doc = IF r.ok THEN r.val ELSE NoDoc]
  /\ UNCHANGED <<dataFile, configFile, receipts>>

CoreNext ==
  \/ CallSingle
  \/ CallBulk

\* one call of a renderer, on every roster and config of the Init sets
CoreSpec == Init /\ [][CoreNext]_vars

(* ---------------------------- properties ------------------------------- *)
\* the text of the cell that follows the cell with the given caption
PageField(page, caption) ==
  LET i == CHOOSE i \in 1..(Len(page) - 1) : page[i].op = "cell" /\ page[i].txt = caption
  IN page[i + 1].txt

BulkCallOk == last.op = "generate_bulk_one_pdf" /\ last.result = "ok"

\* C1: generate_bulk_one_pdf on N >= 1 records, for either fee, returns one
\* document of exactly N pages, and page i shows the name and the ID number
\* of the i-th record of its input.
C1_PagesFollowInput ==
  (BulkCallOk /\ last.rows # <<>>) =>
    /\ Len(last.doc.pages) = Len(last.rows)
    /\ \A i \in 1..Len(last.rows) :
         /\ PageField(last.doc.pages[i], <<"Nama:">>) = last.rows[i]["NAMA"]
         /\ PageField(last.doc.pages[i], <<"No. KP:">>) = last.rows[i]["NO_KP"]

\* two records rendered in the reverse of their roster order
C1_Witness ==
  /\ BulkCallOk
  /\ Len(last.rows) = 2
  /\ Len(last.doc.pages) = 2
  /\ last.rows[1]["NO_KP"] = <<"2">>
  /\ last.rows[2]["NO_KP"] = <<"1">>
  /\ last.fee_key = "SILAT"

\* C2: generate_bulk_one_pdf on an empty sequence fails (it returns no
\* document).
C2_EmptyInputFails ==
  (last.op = "generate_bulk_one_pdf" /\ last.rows = <<>>) =>
    (last.result # "ok" /\ last.doc = NoDoc)

WriteOps == {"add", "save", "delete", "import"}

\* C3: after a run that wrote the roster, every amount the next load returns
\* is a number >= 0.
C3_AmountsNonNegative ==
  last.op \in WriteOps =>
    LET r == load_students(dataFile)
    IN /\ r.ok
       /\ \A i \in 1..Len(r.val.rows) : \A c \in AmountCols :
            /\ r.val.rows[i][c].t \in {"int", "float"}
            /\ r.val.rows[i][c].c >= 0

\* the file name of the i-th selected record
NameOf(i) == ReceiptName(last.fee_key, last.rows[i])

\* the selected records written under the file name of record i
SameName(i) == {k \in 1..Len(last.rows) : NameOf(k) = NameOf(i)}

Max(S) == CHOOSE x \in S : \A y \in S : y <= x

ZipOk == last.op = "zip" /\ last.result = "ok"

\* C4 as claimed: when two selected records have the same file name, the
\* archive and the directory each hold exactly one entry of that name, the
\* later record's document.
C4_OneEntryEach ==
  ZipOk =>
    \A i, j \in 1..Len(last.rows) :
      (i < j /\ NameOf(i) = NameOf(j)) =>
        /\ Cardinality({k \in 1..Len(last.zip) : last.zip[k].name = NameOf(j)}) = 1
        /\ NameOf(j) \in DOMAIN receipts
        /\ receipts[NameOf(j)] = last.zip[Max(SameName(j))].data

\* C4 amended: when two selected records have the same file name, the
\* directory holds one file of that name, the document of the last such
\* record, and the archive holds one member of that name for each such
\* record, each showing its own record.
C4_DirectoryOverwrittenArchiveKeepsBoth ==
  ZipOk =>
    \A i, j \in 1..Len(last.rows) :
      (i < j /\ NameOf(i) = NameOf(j)) =>
        /\ NameOf(j) \in DOMAIN receipts
        /\ receipts[NameOf(j)] = last.zip[Max(SameName(j))].data
        /\ PageField(receipts[NameOf(j)].pages[1], <<"No. KP:">>)
             = last.rows[Max(SameName(j))]["NO_KP"]
        /\ {k \in 1..Len(last.zip) : last.zip[k].name = NameOf(j)} = SameName(j)
        /\ \A k \in SameName(j) :
             PageField(last.zip[k].data.pages[1], <<"No. KP:">>) = last.rows[k]["NO_KP"]

\* two different records of one file name exported, over an older file of
\* that name
C4_Witness ==
  /\ ZipOk
  /\ Len(last.rows) = 2
  /\ NameOf(1) = NameOf(2)
  /\ last.rows[1]["NO_KP"] # last.rows[2]["NO_KP"]
  /\ NameOf(1) \in DOMAIN last.before.receipts

\* C5: the archive of N >= 1 selected records has exactly N members, member
\* i the one-page document of record i; the directory gains or replaces
\* exactly the files of the generated names (N of them when the names are
\* pairwise different), each a document of this export, and keeps its other
\* files.
C5_ArchiveHasNEntries ==
  ZipOk =>
    LET N == Len(last.rows)
        names == {NameOf(i) : i \in 1..N}
    IN /\ N >= 1
       /\ Len(last.zip) = N
       /\ \A i \in 1..N :
            /\ last.zip[i].name = NameOf(i)
            /\ Len(last.zip[i].data.pages) = 1
            /\ PageField(last.zip[i].data.pages[1], <<"No. KP:">>) = last.rows[i]["NO_KP"]
       /\ DOMAIN receipts = DOMAIN last.before.receipts \cup names
       /\ \A n \in names : \E k \in 1..N : NameOf(k) = n /\ receipts[n] = last.zip[k].data
       /\ \A n \in DOMAIN receipts \ names : receipts[n] = last.before.receipts[n]
       /\ (\A i, j \in 1..N : i # j => NameOf(i) # NameOf(j))
            => Cardinality({n \in DOMAIN receipts : n \in names}) = N

\* two records of different file names exported into an empty directory
C5_Witness ==
  /\ ZipOk
  /\ Len(last.rows) = 2
  /\ NameOf(1) # NameOf(2)
  /\ Cardinality(DOMAIN receipts) = 2
  /\ DOMAIN last.before.receipts = {}

BulkOk == last.op = "bulk" /\ last.result = "ok"

\* the receipt number page i shows
Rno(i) == PageField(last.doc.pages[i], <<"No. Resit:">>)

\* the receipt number of a page whose clock reading is k
StampedNo(k) ==
  Get(last.cfg, "receipt_prefix", <<"D", "N">>) \o <<"-">> \o StampSecond(Now(k))

\* C6 as claimed: every page of a combined batch shows <prefix>-<timestamp
\* to the second> of its own clock reading, and the numbers of one batch are
\* pairwise distinct.
C6_NumbersDistinct ==
  BulkOk =>
    /\ \A i \in 1..Len(last.rows) : Rno(i) = StampedNo(last.ats[i].r)
    /\ \A i, j \in 1..Len(last.rows) : i # j => Rno(i) # Rno(j)

\* C6 amended: every page of a combined batch shows <prefix>-<timestamp to
\* the second> of its own clock reading, and two pages show the same number
\* exactly when their readings fall in the same second.
C6_NumbersDifferBySecond ==
  BulkOk =>
    /\ \A i \in 1..Len(last.rows) : Rno(i) = StampedNo(last.ats[i].r)
    /\ \A i, j \in 1..Len(last.rows) :
         (Rno(i) = Rno(j)) <=> (last.ats[i].r = last.ats[j].r)

\* a batch whose two pages are rendered within one second
C6_Witness ==
  /\ BulkOk
  /\ Len(last.rows) = 2
  /\ last.ats[1].r = last.ats[2].r
  /\ Rno(1) = Rno(2)

GenOps == {"individu", "bulk", "zip"}

\* the page rendered for the i-th selected record
ReceiptPage(i) ==
  IF last.op = "zip" THEN last.zip[i].data.pages[1] ELSE last.doc.pages[i]

\* C7: an export in any of the three modes leaves DATA_PATH as it was; the
\* date line of each receipt shows the stored paid date when there is one,
\* and the date of the clock reading when the stored date is blank (and the
\* stored date stays blank).
C7_RosterUntouched ==
  (last.op \in GenOps /\ last.result = "ok") =>
    /\ dataFile = last.before.dataFile
    /\ \A i \in 1..Len(last.rows) :
         LET stored == last.rows[i][fee_map(last.fee_key)[2]]
             shown == PageField(ReceiptPage(i), <<"Tarikh:">>)
         IN /\ last.rows[i] \in Range(load_students(dataFile).val.rows)
            /\ stored # <<>> => shown = stored
            /\ stored = <<>> => shown = StampDate(Now(last.ats[i].d))

\* an archive export with a record whose stored date is blank, rendered
\* after midnight, and a record whose stored date is not blank
C7_Witness ==
  /\ ZipOk
  /\ Len(last.rows) = 2
  /\ \E i, j \in 1..2 :
       /\ last.rows[i][fee_map(last.fee_key)[2]] = <<>>
       /\ PageField(ReceiptPage(i), <<"Tarikh:">>)
            = <<"2", "0", "2", "5", "-", "0", "1", "-", "0", "1">>
       /\ last.rows[j][fee_map(last.fee_key)[2]] = Dec1
       /\ PageField(ReceiptPage(j), <<"Tarikh:">>) = Dec1

\* C8: with any stored config, rendering a receipt for either fee does not
\* fail.
C8_MissingKeysFallBack ==
  last.op \in {"generate_single_pdf", "generate_bulk_one_pdf"} => last.result = "ok"

\* C9: load_students returns, for every file in DATA_PATH, a table of the
\* ten required columns in order, with numeric amounts, a column the file
\* lacks filled with "" (text) or 0 (amount).
C9_LoadNeverFails ==
  LET r == load_students(dataFile)
      lacks == IF dataFile.exists THEN Range(REQUIRED_COLS) \ Range(dataFile.cols) ELSE {}
  IN /\ r.ok
     /\ r.val.cols = REQUIRED_COLS
     /\ \A i \in 1..Len(r.val.rows) :
          /\ DOMAIN r.val.rows[i] = Range(REQUIRED_COLS)
          /\ \A c \in AmountCols : r.val.rows[i][c].t \in {"int", "float"}
          /\ \A c \in lacks :
               IF c \in AmountCols THEN r.val.rows[i][c].c = 0
               ELSE r.val.rows[i][c] = <<>>

\* C10: page i of generate_bulk_one_pdf is the page generate_single_pdf
\* renders for record i with the same fee, config and clock readings, and
\* both documents have the same page-break margin.
C10_BulkPageIsSinglePage ==
  BulkCallOk =>
    \A i \in 1..Len(last.rows) :
      LET single == generate_single_pdf(last.cfg, last.rows[i], last.fee_key, last.ats[i])
      IN /\ single.ok
         /\ single.val.margin = last.doc.margin
         /\ single.val.pages = << last.doc.pages[i] >>

\* a two-page SILAT batch under a stored config, one page with a defaulted date
C10_Witness ==
  /\ BulkCallOk
  /\ Len(last.rows) = 2
  /\ last.fee_key = "SILAT"
  /\ last.cfg = CustomConfig
  /\ \E i \in 1..2 : last.rows[i]["SILAT_DATE"] = <<>> /\ last.ats[i].d < last.ats[i].r

====
